---- MODULE Spec2Model ----
(***************************************************************************)
(* Model of scripts/block-import-stats.py: the comparison of two block     *)
(* import benchmark runs (baseline, contender).  The script is a single    *)
(* sequential pipeline; each statement group of main() is one action and   *)
(* pc is the position in main().                                           *)
(*                                                                         *)
(* Floating point values are modelled as exact fractions [n, d] in lowest  *)
(* terms; d = 0 encodes the non-finite values: n = 1 is +inf, n = -1 is    *)
(* -inf and n = 0 is NaN (pandas' missing value).  Rounding of float64 is   *)
(* not modelled.  The --plot branch draws charts from df and assigns       *)
(* nothing; it has no action.  The input files hold at least one row, in   *)
(* strictly increasing block_number order, with time > 0.                  *)
(***************************************************************************)
EXTENDS Integers, Sequences, FiniteSets

VARIABLES
  files,        \* the two CSV files on disk: [baseline, contender]
  args,         \* parsed command line: [bins, min_block_number]
  pc,           \* position in main()
  baseline,     \* frame returned by readStats / restricted by .loc
  contender,    \* frame returned by readStats / restricted by .loc
  start,        \* main: start
  end,          \* main: end
  df,           \* main: df (merged / interpolated / trimmed / with deltas)
  groups,       \* formatBins: the groups handed to agg
  stats_df,     \* main: stats_df
  output,       \* what has been printed or written to the markdown file
  exit_status,  \* process exit status once the run has ended
  error         \* uncaught exception that ended the run, or "none"

vars == <<files, args, pc, baseline, contender, start, end, df, groups,
          stats_df, output, exit_status, error>>

-----------------------------------------------------------------------------
(* Bounds of the model *)

MaxBlock == 2       \* block numbers of the alignment inputs: 0..MaxBlock
MaxMinBlock == 2    \* --min-block-number ranges over -1..MaxMinBlock

(* Program constants *)

NSEC == 1000000000             \* readStats: df.time /= 1000000000
DefaultMinBlockNumber == 500000 \* --min-block-number default

(* A name of main() that is not assigned yet; pc tells when it is. *)
Null == <<>>

-----------------------------------------------------------------------------
(* Exact arithmetic standing for float64 *)

Abs(x) == IF x < 0 THEN -x ELSE x
Sgn(x) == IF x > 0 THEN 1 ELSE IF x < 0 THEN -1 ELSE 0

RECURSIVE GCD(_, _)
GCD(a, b) == IF b = 0 THEN a ELSE GCD(b, a % b)

Norm(n, d) ==
  IF d = 0 THEN [n |-> Sgn(n), d |-> 0]
  ELSE LET s == IF d < 0 THEN -1 ELSE 1
           g == GCD(Abs(n), Abs(d))
       IN [n |-> s * Sgn(n) * (Abs(n) \div g), d |-> Abs(d) \div g]

NaN == [n |-> 0, d |-> 0]
Zero == [n |-> 0, d |-> 1]
One == [n |-> 1, d |-> 1]
FromInt(i) == [n |-> i, d |-> 1]

IsNaN(a) == a.n = 0 /\ a.d = 0
IsInf(a) == a.n # 0 /\ a.d = 0
IsFinite(a) == a.d # 0
IsZero(a) == a.n = 0 /\ a.d # 0

FNeg(a) == [n |-> -a.n, d |-> a.d]

FAdd(a, b) ==
  IF IsNaN(a) \/ IsNaN(b) THEN NaN
  ELSE IF IsInf(a) /\ IsInf(b) THEN (IF a.n = b.n THEN a ELSE NaN)
  ELSE IF IsInf(a) THEN a
  ELSE IF IsInf(b) THEN b
  ELSE Norm(a.n * b.d + b.n * a.d, a.d * b.d)

FSub(a, b) == FAdd(a, FNeg(b))

FMul(a, b) ==
  IF IsNaN(a) \/ IsNaN(b) THEN NaN
  ELSE IF IsInf(a) \/ IsInf(b)
       THEN [n |-> Sgn(a.n) * Sgn(b.n), d |-> 0]
  ELSE Norm(a.n * b.n, a.d * b.d)

FDiv(a, b) ==
  IF IsNaN(a) \/ IsNaN(b) THEN NaN
  ELSE IF IsInf(a) /\ IsInf(b) THEN NaN
  ELSE IF IsInf(a) THEN [n |-> a.n * (IF b.n < 0 THEN -1 ELSE 1), d |-> 0]
  ELSE IF IsInf(b) THEN Zero
  ELSE IF b.n = 0 THEN [n |-> Sgn(a.n), d |-> 0]
  ELSE Norm(a.n * b.d, a.d * b.n)

-----------------------------------------------------------------------------
(* Sequences *)

Index(frame) == [i \in 1..Len(frame) |-> frame[i].block_number]
IndexSet(frame) == {frame[i].block_number : i \in 1..Len(frame)}

SetMin(S) == CHOOSE x \in S : \A y \in S : x <= y
SetMax(S) == CHOOSE x \in S : \A y \in S : x >= y

-----------------------------------------------------------------------------
(* readStats *)

readRow(r) ==
  LET time == Norm(r.time, NSEC)
  IN [block_number |-> r.block_number,
      blocks |-> r.blocks,
      txs |-> r.txs,
      time |-> time,
      bps |-> FDiv(FromInt(r.blocks), time),
      tps |-> FDiv(FromInt(r.txs), time)]

readStats(csv) == [i \in 1..Len(csv) |-> readRow(csv[i])]

-----------------------------------------------------------------------------
(* main: overlap window and restriction *)

(* Mutant of loc: the upper end of the window is not applied *)
loc_NoUpperBound(frame, lo, hi) ==
  LET FromLo(r) == lo <= r.block_number
  IN SelectSeq(frame, FromLo)

loc(frame, lo, hi) ==
  LET InWindow(r) == lo <= r.block_number /\ r.block_number <= hi
  IN SelectSeq(frame, InWindow)

NoOverlapCondition(b, c, s, e) ==
  \/ s > SetMax({SetMax(IndexSet(b)), SetMax(IndexSet(c))})
  \/ e < SetMin({SetMin(IndexSet(b)), SetMin(IndexSet(c))})

-----------------------------------------------------------------------------
(* main: baseline.merge(contender, on=("block_number", "blocks"),          *)
(* how="outer").  The result is sorted by the join keys and keeps          *)
(* block_number as its index.                                              *)

Keys(frame) ==
  {<<frame[i].block_number, frame[i].blocks>> : i \in 1..Len(frame)}

KeyLess(a, b) == a[1] < b[1] \/ (a[1] = b[1] /\ a[2] < b[2])

RECURSIVE SortKeys(_)
SortKeys(S) ==
  IF S = {} THEN <<>>
  ELSE LET m == CHOOSE k \in S : \A o \in S \ {k} : KeyLess(k, o)
       IN <<m>> \o SortKeys(S \ {m})

HasKey(frame, k) == k \in Keys(frame)

RowOf(frame, k) ==
  frame[CHOOSE i \in 1..Len(frame) :
          frame[i].block_number = k[1] /\ frame[i].blocks = k[2]]

(* Mutant of MergedRow: the _x and _y suffixes are swapped *)
MergedRow_SwappedSuffixes(left, right, k) ==
  [block_number |-> k[1],
   blocks |-> k[2],
   txs_x  |-> IF HasKey(right, k) THEN FromInt(RowOf(right, k).txs) ELSE NaN,
   time_x |-> IF HasKey(right, k) THEN RowOf(right, k).time ELSE NaN,
   bps_x  |-> IF HasKey(right, k) THEN RowOf(right, k).bps ELSE NaN,
   tps_x  |-> IF HasKey(right, k) THEN RowOf(right, k).tps ELSE NaN,
   txs_y  |-> IF HasKey(left, k) THEN FromInt(RowOf(left, k).txs) ELSE NaN,
   time_y |-> IF HasKey(left, k) THEN RowOf(left, k).time ELSE NaN,
   bps_y  |-> IF HasKey(left, k) THEN RowOf(left, k).bps ELSE NaN,
   tps_y  |-> IF HasKey(left, k) THEN RowOf(left, k).tps ELSE NaN]

MergedRow(left, right, k) ==
  [block_number |-> k[1],
   blocks |-> k[2],
   txs_x  |-> IF HasKey(left, k) THEN FromInt(RowOf(left, k).txs) ELSE NaN,
   time_x |-> IF HasKey(left, k) THEN RowOf(left, k).time ELSE NaN,
   bps_x  |-> IF HasKey(left, k) THEN RowOf(left, k).bps ELSE NaN,
   tps_x  |-> IF HasKey(left, k) THEN RowOf(left, k).tps ELSE NaN,
   txs_y  |-> IF HasKey(right, k) THEN FromInt(RowOf(right, k).txs) ELSE NaN,
   time_y |-> IF HasKey(right, k) THEN RowOf(right, k).time ELSE NaN,
   bps_y  |-> IF HasKey(right, k) THEN RowOf(right, k).bps ELSE NaN,
   tps_y  |-> IF HasKey(right, k) THEN RowOf(right, k).tps ELSE NaN]

merge(left, right) ==
  LET ks == SortKeys(Keys(left) \cup Keys(right))
  IN [i \in 1..Len(ks) |-> MergedRow(left, right, ks[i])]

-----------------------------------------------------------------------------
(* main: df.interpolate(method="index").reindex(contender.index)          *)

ValueCols ==
  {"txs_x", "time_x", "bps_x", "tps_x", "txs_y", "time_y", "bps_y", "tps_y"}

(* Linear interpolation of column c at row i over the index values.  With  *)
(* the default limit_direction="forward" a gap before the first valid      *)
(* value stays NaN and a gap after the last valid value takes that value.  *)
interpolateCell(d, i, c) ==
  IF ~IsNaN(d[i][c]) THEN d[i][c]
  ELSE LET before == {j \in 1..(i - 1) : ~IsNaN(d[j][c])}
           after == {j \in (i + 1)..Len(d) : ~IsNaN(d[j][c])}
       IN IF before = {} THEN NaN
          ELSE IF after = {} THEN d[SetMax(before)][c]
          ELSE LET j0 == SetMax(before)
                   j1 == SetMin(after)
                   x0 == d[j0].block_number
                   x1 == d[j1].block_number
                   x == d[i].block_number
                   y0 == d[j0][c]
                   y1 == d[j1][c]
               IN IF x1 = x0 THEN y0
                  ELSE FAdd(y0, FMul(FDiv(FSub(y1, y0), FromInt(x1 - x0)),
                                     FromInt(x - x0)))

interpolate(d) ==
  [i \in 1..Len(d) |->
     [c \in DOMAIN d[i] |->
        IF c \in ValueCols THEN interpolateCell(d, i, c) ELSE d[i][c]]]

HasDuplicateLabels(d) ==
  \E i, j \in 1..Len(d) : i # j /\ d[i].block_number = d[j].block_number

MissingRow(label) ==
  [block_number |-> label, blocks |-> NaN,
   txs_x |-> NaN, time_x |-> NaN, bps_x |-> NaN, tps_x |-> NaN,
   txs_y |-> NaN, time_y |-> NaN, bps_y |-> NaN, tps_y |-> NaN]

(* Defined when the labels of d are unique; reindex raises otherwise. *)
reindex(d, idx) ==
  [k \in 1..Len(idx) |->
     IF idx[k] \in IndexSet(d)
     THEN d[CHOOSE i \in 1..Len(d) : d[i].block_number = idx[k]]
     ELSE MissingRow(idx[k])]

-----------------------------------------------------------------------------
(* main: warm-up trim *)

TrimCondition(d, min_block_number) ==
  d[Len(d)].block_number > min_block_number + d[1].block_number

(* Mutant of Cutoff: max in place of min *)
Cutoff_Max(d, min_block_number) ==
  SetMax({d[Len(d)].block_number - min_block_number, min_block_number})

Cutoff(d, min_block_number) ==
  SetMin({d[Len(d)].block_number - min_block_number, min_block_number})

(* Mutant of trim: every row below min_block_number is skipped *)
trim_SkipBelowMin(d, min_block_number) ==
  LET AtOrAfter(r) == r.block_number >= min_block_number
  IN SelectSeq(d, AtOrAfter)

trim(d, min_block_number) ==
  IF TrimCondition(d, min_block_number)
  THEN LET AtOrAfter(r) == r.block_number >= Cutoff(d, min_block_number)
       IN SelectSeq(d, AtOrAfter)
  ELSE d

-----------------------------------------------------------------------------
(* main: bpsd, tpsd, timed *)

(* Mutant of replace: nothing is replaced *)
replace_Nothing(v, old, new) == v

replace(v, old, new) == IF v = old THEN new ELSE v

bpsd(r) == FDiv(FSub(r.bps_y, r.bps_x), r.bps_x)
tpsd(r) == FDiv(FSub(r.tps_y, r.tps_x), replace(r.tps_x, Zero, One))
timed(r) == FDiv(FSub(r.time_y, r.time_x), r.time_x)

DeltaCols == {"bpsd", "tpsd", "timed"}

withDeltas(r) ==
  [c \in DOMAIN r \cup DeltaCols |->
     IF c = "bpsd" THEN bpsd(r)
     ELSE IF c = "tpsd" THEN tpsd(r)
     ELSE IF c = "timed" THEN timed(r)
     ELSE r[c]]

-----------------------------------------------------------------------------
(* formatBins and the aggregation *)

(* np.linspace(lo, hi, num, dtype=int): evenly spaced, rounded down. *)
linspace(lo, hi, num) ==
  IF num = 1 THEN <<lo>>
  ELSE [i \in 1..num |->
          (lo * (num - 1) + (i - 1) * (hi - lo)) \div (num - 1)]

BinEdges(d, bins) ==
  linspace(d[1].block_number - d[1].blocks, d[Len(d)].block_number, bins)

(* pd.cut raises on repeated edges unless there are exactly two edges. *)
EdgesRejected(edges) ==
  /\ Len(edges) # 2
  /\ \E i, j \in 1..Len(edges) : i # j /\ edges[i] = edges[j]

(* pd.cut, right=True, include_lowest=False: the interval (lo, hi]. *)
InBucket(x, edges, i) == edges[i] < x /\ x <= edges[i + 1]

BucketRows(d, edges, i) ==
  LET Inside(r) == InBucket(r.block_number, edges, i)
  IN SelectSeq(d, Inside)

(* groupby(..., observed=True): only the buckets that hold a row. *)
RECURSIVE GroupsFrom(_, _, _)
GroupsFrom(d, edges, i) ==
  IF i >= Len(edges) THEN <<>>
  ELSE LET rows == BucketRows(d, edges, i)
           rest == GroupsFrom(d, edges, i + 1)
       IN IF rows = <<>> THEN rest
          ELSE <<[interval |-> <<edges[i], edges[i + 1]>>, rows |-> rows]>>
               \o rest

formatBins(d, bins) == GroupsFrom(d, BinEdges(d, bins), 1)

RECURSIVE SumFrom(_, _, _)
SumFrom(rows, c, i) ==
  IF i > Len(rows) THEN Zero
  ELSE IF IsNaN(rows[i][c]) THEN SumFrom(rows, c, i + 1)
       ELSE FAdd(rows[i][c], SumFrom(rows, c, i + 1))

(* "sum" and "mean" skip missing values. *)
sum(rows, c) == SumFrom(rows, c, 1)

mean(rows, c) ==
  LET present == {i \in 1..Len(rows) : ~IsNaN(rows[i][c])}
  IN IF present = {} THEN NaN
     ELSE FDiv(sum(rows, c), FromInt(Cardinality(present)))

agg(rows) ==
  [bps_x |-> mean(rows, "bps_x"), bps_y |-> mean(rows, "bps_y"),
   tps_x |-> mean(rows, "tps_x"), tps_y |-> mean(rows, "tps_y"),
   time_x |-> sum(rows, "time_x"), time_y |-> sum(rows, "time_y"),
   bpsd |-> mean(rows, "bpsd"), tpsd |-> mean(rows, "tpsd"),
   timed |-> mean(rows, "timed")]

(* GroupBy.agg: one row per group, labelled by the group's interval. *)
aggGroups(gs) ==
  [kind |-> "DataFrame",
   rows |-> [i \in 1..Len(gs) |-> [label |-> gs[i].interval,
                                   value |-> agg(gs[i].rows)]]]

(* DataFrame.agg with one function name per column reduces each column of *)
(* the whole frame to a scalar and returns a Series.                      *)
aggFrame(d) == [kind |-> "Series", value |-> agg(d)]

-----------------------------------------------------------------------------
(* Reporters *)

(* int(s): truncation toward zero of a finite value *)
Trunc(s) == Sgn(s.n) * (Abs(s.n) \div s.d)

prettySecs(s) ==
  LET sa == Abs(Trunc(s))
  IN [sign |-> IF s.n >= 0 THEN "" ELSE "-",
      h |-> sa \div (60 * 60),
      m |-> (sa \div 60) % 60,
      ss |-> sa % 60]

Summary(d) ==
  LET time_xt == sum(d, "time_x")
      time_yt == sum(d, "time_y")
      timet == FSub(time_yt, time_xt)
  IN [total_blocks |-> SetMax(IndexSet(d)) - SetMin(IndexSet(d)),
      baseline |-> prettySecs(time_xt),
      contender |-> prettySecs(time_yt),
      time_total |-> prettySecs(timet),
      time_pct |-> FDiv(timet, time_xt)]

ReportRow(row) ==
  [label |-> row.label,
   bps_x |-> row.value.bps_x, bps_y |-> row.value.bps_y,
   tps_x |-> row.value.tps_x, tps_y |-> row.value.tps_y,
   time_x |-> prettySecs(row.value.time_x),
   time_y |-> prettySecs(row.value.time_y),
   bpsd |-> row.value.bpsd, tpsd |-> row.value.tpsd,
   timed |-> row.value.timed]

ReportTable(stats) == [i \in 1..Len(stats.rows) |-> ReportRow(stats.rows[i])]

-----------------------------------------------------------------------------
(* Inputs: the CSV files and the command line *)

RECURSIVE CsvOf(_, _)
CsvOf(bs, f) ==
  IF bs = {} THEN <<>>
  ELSE LET b == SetMin(bs)
       IN <<[block_number |-> b, blocks |-> f[b][1], txs |-> f[b][2],
             gas |-> 0, time |-> f[b][3]]>> \o CsvOf(bs \ {b}, f)

(* Every non-empty file with strictly increasing block_number over BNs *)
CsvFiles(BNs, Vals) ==
  UNION {{CsvOf(bs, f) : f \in [bs -> Vals]} : bs \in (SUBSET BNs) \ {{}}}

(* Inputs that vary the block numbers, the chunking and the arguments *)
AlignFiles == CsvFiles(0..MaxBlock, (0..1) \X {1} \X {NSEC})

AlignInputs ==
  [files : [baseline : AlignFiles, contender : AlignFiles],
   args : [bins : {0, 2, 3}, min_block_number : -1..MaxMinBlock]]

(* Inputs that vary the measured values *)
ValueFiles == CsvFiles(1..2, (0..1) \X (0..1) \X {NSEC \div 2, NSEC})

ValueInputs ==
  [files : [baseline : ValueFiles, contender : ValueFiles],
   args : [bins : {-1, 0, 2}, min_block_number : {DefaultMinBlockNumber}]]

Inputs == AlignInputs \cup ValueInputs

-----------------------------------------------------------------------------
(* The run *)

Init ==
  /\ \E inp \in Inputs : files = inp.files /\ args = inp.args
  /\ pc = "readStats"
  /\ baseline = Null
  /\ contender = Null
  /\ start = Null
  /\ end = Null
  /\ df = Null
  /\ groups = Null
  /\ stats_df = Null
  /\ output = <<>>
  /\ exit_status = Null
  /\ error = "none"

(* The exceptions the run can end with *)
ReindexError == "ValueError: cannot reindex on an axis with duplicate labels"
EmptyFrameError == "IndexError: single positional indexer is out-of-bounds"
BinEdgesError == "ValueError: Bin edges must be unique"
ToStringError == "TypeError: to_string() got an unexpected keyword argument 'formatters'"
IterrowsError == "AttributeError: 'Series' object has no attribute 'iterrows'"

(* An uncaught exception ends the interpreter with status 1. *)
Raise(name) ==
  /\ pc' = "exception"
  /\ error' = name
  /\ exit_status' = 1

ReadStats ==
  /\ pc = "readStats"
  /\ baseline' = readStats(files.baseline)
  /\ contender' = readStats(files.contender)
  /\ pc' = "overlap"
  /\ UNCHANGED <<files, args, start, end, df, groups, stats_df, output,
                 exit_status, error>>

CheckOverlap ==
  /\ pc = "overlap"
  /\ LET s == SetMax({SetMin(IndexSet(baseline)), SetMin(IndexSet(contender))})
         e == SetMin({SetMax(IndexSet(baseline)), SetMax(IndexSet(contender))})
     IN /\ start' = s
        /\ end' = e
        /\ IF NoOverlapCondition(baseline, contender, s, e)
           THEN /\ output' =
                     <<"Error: No overlapping time ranges between baseline and contender datasets",
                       [name |-> "Baseline range",
                        from |-> SetMin(IndexSet(baseline)),
                        to |-> SetMax(IndexSet(baseline))],
                       [name |-> "Contender range",
                        from |-> SetMin(IndexSet(contender)),
                        to |-> SetMax(IndexSet(contender))]>>
                /\ pc' = "exit"
                /\ exit_status' = 1
           ELSE /\ pc' = "restrict"
                /\ UNCHANGED <<output, exit_status>>
  /\ UNCHANGED <<files, args, baseline, contender, df, groups, stats_df, error>>

Restrict ==
  /\ pc = "restrict"
  /\ baseline' = loc(baseline, start, end)
  /\ contender' = loc(contender, start, end)
  /\ pc' = "merge"
  /\ UNCHANGED <<files, args, start, end, df, groups, stats_df, output,
                 exit_status, error>>

Merge ==
  /\ pc = "merge"
  /\ df' = merge(baseline, contender)
  /\ pc' = "interpolate"
  /\ UNCHANGED <<files, args, baseline, contender, start, end, groups,
                 stats_df, output, exit_status, error>>

InterpolateReindex ==
  /\ pc = "interpolate"
  /\ LET filled == interpolate(df)
     IN IF HasDuplicateLabels(filled)
        THEN Raise(ReindexError) /\ UNCHANGED df
        ELSE /\ df' = reindex(filled, Index(contender))
             /\ pc' = "trim"
             /\ UNCHANGED <<exit_status, error>>
  /\ UNCHANGED <<files, args, baseline, contender, start, end, groups,
                 stats_df, output>>

Trim ==
  /\ pc = "trim"
  /\ IF df = <<>>
     THEN Raise(EmptyFrameError) /\ UNCHANGED df
     ELSE /\ df' = trim(df, args.min_block_number)
          /\ pc' = "delta"
          /\ UNCHANGED <<exit_status, error>>
  /\ UNCHANGED <<files, args, baseline, contender, start, end, groups,
                 stats_df, output>>

Delta ==
  /\ pc = "delta"
  /\ df' = [i \in 1..Len(df) |-> withDeltas(df[i])]
  /\ pc' = "aggregate"
  /\ UNCHANGED <<files, args, baseline, contender, start, end, groups,
                 stats_df, output, exit_status, error>>

Aggregate ==
  /\ pc = "aggregate"
  /\ IF args.bins > 0
     THEN IF df = <<>>
          THEN Raise(EmptyFrameError) /\ UNCHANGED <<groups, stats_df>>
          ELSE IF EdgesRejected(BinEdges(df, args.bins))
          THEN Raise(BinEdgesError) /\ UNCHANGED <<groups, stats_df>>
          ELSE /\ groups' = formatBins(df, args.bins)
               /\ stats_df' = aggGroups(groups')
               /\ pc' = "report"
               /\ UNCHANGED <<exit_status, error>>
     ELSE /\ groups' = df
          /\ stats_df' = aggFrame(df)
          /\ pc' = "report"
          /\ UNCHANGED <<exit_status, error>>
  /\ UNCHANGED <<files, args, baseline, contender, start, end, df, output>>

(* write_markdown_output iterates stats_df.iterrows() and                  *)
(* write_standard_output calls stats_df.to_string(formatters=...): both    *)
(* exist for a DataFrame only.                                             *)
Report ==
  /\ pc = "report"
  /\ \E markdown_output \in BOOLEAN :
       IF stats_df.kind = "Series"
       THEN /\ Raise(IF markdown_output THEN IterrowsError ELSE ToStringError)
            /\ UNCHANGED output
       ELSE /\ output' = <<[to |-> IF markdown_output THEN "file" ELSE "stdout",
                            table |-> ReportTable(stats_df),
                            summary |-> Summary(df)]>>
            /\ pc' = "done"
            /\ exit_status' = 0
            /\ UNCHANGED error
  /\ UNCHANGED <<files, args, baseline, contender, start, end, df, groups,
                 stats_df>>

Next ==
  \/ ReadStats
  \/ CheckOverlap
  \/ Restrict
  \/ Merge
  \/ InterpolateReindex
  \/ Trim
  \/ Delta
  \/ Aggregate
  \/ Report

Spec == Init /\ [][Next]_vars

-----------------------------------------------------------------------------
(* Quantities of the claims, computed from the input files *)

FileBlocks(csv) == {csv[i].block_number : i \in 1..Len(csv)}

WindowStart ==
  SetMax({SetMin(FileBlocks(files.baseline)), SetMin(FileBlocks(files.contender))})

WindowEnd ==
  SetMin({SetMax(FileBlocks(files.baseline)), SetMax(FileBlocks(files.contender))})

RangesDisjoint ==
  \/ SetMax(FileBlocks(files.baseline)) < SetMin(FileBlocks(files.contender))
  \/ SetMax(FileBlocks(files.contender)) < SetMin(FileBlocks(files.baseline))

ContenderInWindow ==
  LET InWindow(r) == WindowStart <= r.block_number /\ r.block_number <= WindowEnd
  IN SelectSeq(files.contender, InWindow)

(* Positions of main() *)
OverlapChecked == pc \notin {"readStats", "overlap"}
MergeDone == pc \notin {"readStats", "overlap", "restrict", "merge", "exit"}
ReindexDone == pc = "trim" \/ (pc = "exception" /\ error = ReindexError)
TrimDone ==
  \/ pc \in {"delta", "aggregate", "report", "done"}
  \/ pc = "exception" /\ error \in {BinEdgesError, ToStringError, IterrowsError}
DeltaDone ==
  \/ pc \in {"aggregate", "report", "done"}
  \/ pc = "exception" /\ error \in {BinEdgesError, ToStringError, IterrowsError}
AggregateDone ==
  \/ pc \in {"report", "done"}
  \/ pc = "exception" /\ error \in {BinEdgesError, ToStringError, IterrowsError}

Span(d) == d[Len(d)].block_number - d[1].block_number

-----------------------------------------------------------------------------
(* C1: whenever the block_number ranges of baseline and contender do not   *)
(* overlap, main prints the no-overlap error with both ranges and exits    *)
(* with status 1 before any restriction, join, delta or report.            *)
C1_NoOverlapExits ==
  (OverlapChecked /\ RangesDisjoint) =>
    /\ pc = "exit"
    /\ exit_status = 1
    /\ Len(output) = 3
    /\ output[2].from = SetMin(FileBlocks(files.baseline))
    /\ output[2].to = SetMax(FileBlocks(files.baseline))
    /\ output[3].from = SetMin(FileBlocks(files.contender))
    /\ output[3].to = SetMax(FileBlocks(files.contender))

-----------------------------------------------------------------------------
(* C2: with bins <= 0 the aggregated table has exactly one row per aligned *)
(* row, carrying that row's bps_x, bps_y, tps_x, tps_y, time_x, time_y,    *)
(* bpsd, tpsd and timed unchanged.                                         *)
StatsRows ==
  IF stats_df.kind = "Series" THEN <<stats_df.value>>
  ELSE [i \in 1..Len(stats_df.rows) |-> stats_df.rows[i].value]

C2_NoBinsIsPassthrough ==
  (AggregateDone /\ error # BinEdgesError /\ args.bins <= 0) =>
    /\ Len(StatsRows) = Len(df)
    /\ \A i \in 1..Len(df) :
         \A c \in DOMAIN StatsRows[i] : StatsRows[i][c] = df[i][c]

-----------------------------------------------------------------------------
(* C3: every row of the aligned table has its block_number in [start, end] *)
(* with start = max of the two minima and end = min of the two maxima.     *)
C3_AlignedWithinWindow ==
  MergeDone =>
    \A i \in 1..Len(df) :
      WindowStart <= df[i].block_number /\ df[i].block_number <= WindowEnd

(* A completed run on several aligned rows, one input reaching outside    *)
(* the window                                                              *)
C3_Witness ==
  /\ pc = "done"
  /\ Len(df) >= 2
  /\ \E b \in FileBlocks(files.baseline) \cup FileBlocks(files.contender) :
       b < WindowStart \/ b > WindowEnd

-----------------------------------------------------------------------------
(* C4: before the warm-up trim the aligned table holds exactly one row for *)
(* each contender block_number in [start, end] and none for a baseline-only*)
(* block_number, also when the two files have a sample at the same         *)
(* block_number with different blocks (no failure).                        *)
C4_OneRowPerContenderBlock ==
  ReindexDone =>
    /\ error = "none"
    /\ Len(df) = Len(ContenderInWindow)
    /\ \A i \in 1..Len(df) :
         df[i].block_number = ContenderInWindow[i].block_number

-----------------------------------------------------------------------------
(* C5: if baseline and contender hold the same set of (block_number,       *)
(* blocks) pairs, each aligned row carries the baseline sample's time, bps *)
(* and tps as time_x, bps_x, tps_x and the contender sample's as time_y,   *)
(* bps_y, tps_y: join, interpolation and reindex alter no value.           *)
FileKeys(csv) == {<<csv[i].block_number, csv[i].blocks>> : i \in 1..Len(csv)}

SameKeys == FileKeys(files.baseline) = FileKeys(files.contender)

Seconds(ns) == Norm(ns, NSEC)

C5_JoinIsNoOpOnSameKeys ==
  (SameKeys /\ pc = "trim") =>
    /\ Len(df) = Len(files.baseline)
    /\ \A i \in 1..Len(df) :
         LET b == files.baseline[i]
             c == files.contender[i]
         IN /\ df[i].block_number = b.block_number
            /\ df[i].time_x = Seconds(b.time)
            /\ df[i].bps_x = FDiv(FromInt(b.blocks), Seconds(b.time))
            /\ df[i].tps_x = FDiv(FromInt(b.txs), Seconds(b.time))
            /\ df[i].time_y = Seconds(c.time)
            /\ df[i].bps_y = FDiv(FromInt(c.blocks), Seconds(c.time))
            /\ df[i].tps_y = FDiv(FromInt(c.txs), Seconds(c.time))

(* Same keys, two rows, and the two runs measured different values *)
C5_Witness ==
  /\ SameKeys
  /\ pc = "trim"
  /\ Len(df) = 2
  /\ \A i \in 1..2 : df[i].time_x # df[i].time_y /\ df[i].tps_x # df[i].tps_y

-----------------------------------------------------------------------------
(* C6: with bins >= 2 the bucket intervals are pairwise disjoint and every *)
(* aligned row in the closed range from (first block_number - first blocks)*)
(* to the last block_number, the first row included also when its blocks   *)
(* is 0, is counted in exactly one bucket: the per-bucket row counts sum   *)
(* to the number of aligned rows.                                          *)
RECURSIVE GroupedRowCount(_)
GroupedRowCount(gs) ==
  IF gs = <<>> THEN 0 ELSE Len(Head(gs).rows) + GroupedRowCount(Tail(gs))

C6_BinsPartitionRows ==
  (args.bins >= 2 /\ (pc \in {"report", "done"} \/ error = BinEdgesError)) =>
    /\ error = "none"
    /\ LET edges == BinEdges(df, args.bins)
       IN \A i \in 1..(Len(edges) - 1) : edges[i] < edges[i + 1]
    /\ GroupedRowCount(groups) = Len(df)

-----------------------------------------------------------------------------
(* C7: the warm-up trim leaves the table unchanged whenever the span       *)
(* (last block_number - first block_number) is at most twice               *)
(* min_block_number.                                                       *)
C7_TrimOnlyAboveTwiceMin ==
  [][(pc = "trim" /\ df # <<>> /\ Span(df) <= 2 * args.min_block_number)
       => df' = df]_vars

(* C7 as amended: the warm-up trim drops rows only when the span exceeds   *)
(* min_block_number; whenever the span is at most min_block_number the     *)
(* table is left unchanged.                                                *)
C7_TrimOnlyAboveMin ==
  [][(pc = "trim" /\ df # <<>> /\ Span(df) <= args.min_block_number)
       => df' = df]_vars

(* The trim has run on a table of several rows spanning no more than       *)
(* min_block_number, some of them below it                                 *)
C7_Witness ==
  /\ pc = "delta"
  /\ Len(df) >= 2
  /\ Span(df) <= args.min_block_number
  /\ df[1].block_number < args.min_block_number

-----------------------------------------------------------------------------
(* C8: after the trim no row with block_number < min_block_number remains  *)
(* in the table used for the deltas, the bins and the report.              *)
C8_NoRowBelowMin ==
  TrimDone => \A i \in 1..Len(df) : df[i].block_number >= args.min_block_number

-----------------------------------------------------------------------------
(* C9: tpsd never divides by zero: a baseline tps of exactly 0 is replaced *)
(* by 1, so tpsd = tps_y - tps_x = tps_y, and otherwise                    *)
(* tpsd = (tps_y - tps_x) / tps_x; bpsd and timed divide by bps_x and      *)
(* time_x as they are, a zero bps_x giving a non-finite bpsd.              *)
C9_TpsdGuarded ==
  DeltaDone =>
    \A i \in 1..Len(df) :
      LET r == df[i]
      IN /\ IsZero(r.tps_x) => (r.tpsd = FSub(r.tps_y, r.tps_x) /\ r.tpsd = r.tps_y)
         /\ ~IsZero(r.tps_x) => r.tpsd = FDiv(FSub(r.tps_y, r.tps_x), r.tps_x)
         /\ r.bpsd = FDiv(FSub(r.bps_y, r.bps_x), r.bps_x)
         /\ r.timed = FDiv(FSub(r.time_y, r.time_x), r.time_x)
         /\ IsZero(r.bps_x) => ~IsFinite(r.bpsd)

(* One row with a zero baseline tps and a positive contender tps, and one  *)
(* row with a zero baseline bps                                            *)
C9_Witness ==
  /\ pc = "done"
  /\ \E i \in 1..Len(df) :
       IsZero(df[i].tps_x) /\ IsFinite(df[i].tps_y) /\ df[i].tps_y.n > 0
  /\ \E i \in 1..Len(df) : IsZero(df[i].bps_x) /\ ~IsFinite(df[i].bpsd)
  /\ \E i \in 1..Len(df) : ~IsZero(df[i].tps_x) /\ IsFinite(df[i].tpsd)

-----------------------------------------------------------------------------
(* C10: the warm-up trim never empties the table: the row with the largest *)
(* block_number survives it, for every min_block_number including 0 and    *)
(* negative values.                                                        *)
C10_TrimKeepsLastRow ==
  TrimDone =>
    /\ df # <<>>
    /\ df[Len(df)].block_number =
         ContenderInWindow[Len(ContenderInWindow)].block_number

(* The trim has run and dropped at least one row *)
C10_Witness ==
  /\ pc = "delta"
  /\ Len(df) >= 1
  /\ Len(df) < Len(ContenderInWindow)

====
